---- MODULE Spec2Model ----
(***************************************************************************)
(* The journey HTTP API (package api) and its mailpit mailer.              *)
(*                                                                         *)
(* State: the rows of the relational store behind the `store` interface    *)
(* (trips, participants, activities, links), one record per HTTP request   *)
(* (its handler's inputs, locals, position and response), and the state    *)
(* of the goroutine PostTrips spawns for the owner e-mail.                 *)
(*                                                                         *)
(* Steps: every call of a `store` method is one atomic step (one SQL       *)
(* statement); the handler code that runs before the first call, between   *)
(* two calls and after the last one touches only the request's own locals  *)
(* and is folded into the step of the adjacent call.  A handler with two   *)
(* store calls is therefore two actions, and other requests' steps may     *)
(* fall between them.                                                      *)
(***************************************************************************)
EXTENDS Integers, Sequences, FiniteSets

\* ------------------------------------------------------------------ bounds

\* Number of HTTP requests in one behaviour.
MaxReq == 2
\* Identifiers the store can hand out per table (rows per table).
MaxRows == 2
\* Length of the activity lists fed to the grouping loop in SpecGroup.
MaxActs == 3

Req == 1..MaxReq
Ids == 1..MaxRows

\* ----------------------------------------------------------------- domains

\* uuid.Nil, the value uuid.Parse returns beside an error.
NilUUID == 0

\* A path parameter: text that is the canonical form of a UUID, or is not.
PathParams == [wellFormed : {TRUE}, uuid : Ids] \cup {[wellFormed |-> FALSE, uuid |-> NilUUID]}

\* uuid.Parse: (id, err).
UUIDParse(s) == IF s.wellFormed THEN [err |-> FALSE, id |-> s.uuid]
                ELSE [err |-> TRUE, id |-> NilUUID]

\* uuid.UUID.String(): the canonical text of an identifier.
UUIDString(id) == [wellFormed |-> TRUE, uuid |-> id]

\* A timestamp: a calendar date and a time of day.
Timestamps == {[date |-> 1, hour |-> 9], [date |-> 1, hour |-> 15], [date |-> 2, hour |-> 10]}

\* The timestamp requests carry (stored rows range over Timestamps in
\* SpecGroup).
BodyTimestamps == {t \in Timestamps : t.date = 1 /\ t.hour = 9}

\* Rows.  `found` tells a row from pgx.ErrNoRows.
NoRow == [found |-> FALSE]
Trip(id, dest, s, e, c) ==
    [found |-> TRUE, id |-> id, destination |-> dest, startsAt |-> s, endsAt |-> e,
     isConfirmed |-> c, ownerName |-> "ana", ownerEmail |-> "ana@journey.com"]
Participant(id, trip, email, c) ==
    [found |-> TRUE, id |-> id, tripID |-> trip, email |-> email, isConfirmed |-> c]

\* Request bodies as json.Decoder.Decode leaves the struct (a handler that
\* returns before Decode leaves `body` at NoBody).  decodeErr: Decode
\* returned an error; the struct then holds the fields decoded before it,
\* none or (an error in a later token) all of them.  A field at its zero
\* value fails the validator's `required`.
TripBodies ==
    [decodeErr : {FALSE}, destination : {"Oslo"}, starts_at : {3}, ends_at : {1},
     emails_to_invite : {<<"bob@journey.com">>}]
    \cup [decodeErr : BOOLEAN, destination : {""}, starts_at : {0}, ends_at : {0},
          emails_to_invite : {<<>>}]
UpdateBodies ==
    [decodeErr : {FALSE}, destination : {"Oslo"}, starts_at : {3}, ends_at : {1}]
    \cup [decodeErr : BOOLEAN, destination : {""}, starts_at : {0}, ends_at : {0}]
ActivityBodies ==
    [decodeErr : {FALSE}, title : {"tour"}, occurs_at : BodyTimestamps]
    \cup [decodeErr : BOOLEAN, title : {""}, occurs_at : {[date |-> 0, hour |-> 0]}]
InviteBodies ==
    [decodeErr : {FALSE}, email : {"bob@journey.com"}] \cup [decodeErr : {TRUE}, email : {""}]
LinkBodies ==
    [decodeErr : BOOLEAN, title : {"hotel"}, url : {"http://h"}]
    \cup [decodeErr : BOOLEAN, title : {""}, url : {""}]
NoBody == [decodeErr |-> FALSE]

\* validator.Struct: every `required` field is set.
ValidTrip(body) == body.destination # ""
ValidActivity(body) == body.title # ""
ValidLink(body) == body.title # "" /\ body.url # ""

VARIABLES trips, participants, activities, links, req, mail, logged, sequential
vars == <<trips, participants, activities, links, req, mail, logged, sequential>>

\* ------------------------------------------------------------------- store
\* The `store` interface.  A call either fails (the connection, the pool,
\* a constraint) or runs its one statement atomically.

GetTrip(id) == IF id \in Ids THEN trips[id] ELSE NoRow
GetParticipant(id) == IF id \in Ids THEN participants[id] ELSE NoRow
GetTripActivities(id) == SelectSeq(activities, LAMBDA a : a.tripID = id)
GetTripLinks(id) == SelectSeq(links, LAMBDA l : l.tripID = id)
GetParticipants(id) ==
    LET Rows[i \in 0..MaxRows] ==
            IF i = 0 THEN <<>>
            ELSE IF participants[i].found /\ participants[i].tripID = id
                 THEN Append(Rows[i - 1], participants[i])
                 ELSE Rows[i - 1]
    IN Rows[MaxRows]

\* The identifiers still unused in a table, and the one the next insert gets.
FreeIds(table) == {i \in Ids : ~table[i].found}
NewId(table) == CHOOSE i \in FreeIds(table) : \A j \in FreeIds(table) : i <= j

\* UPDATE trips SET destination, ends_at, starts_at, is_confirmed WHERE id.
UpdateTripRow(row, params) ==
    [row EXCEPT !.destination = params.Destination, !.endsAt = params.EndsAt,
                !.startsAt = params.StartsAt, !.isConfirmed = params.IsConfirmed]
UpdateTrip(params) ==
    IF params.ID \in Ids /\ trips[params.ID].found
    THEN [trips EXCEPT ![params.ID] = UpdateTripRow(@, params)]
    ELSE trips

\* UPDATE participants SET is_confirmed = true WHERE id.
ConfirmParticipant(id) ==
    IF id \in Ids /\ participants[id].found
    THEN [participants EXCEPT ![id] = [@ EXCEPT !.isConfirmed = TRUE]]
    ELSE participants

\* INSERT INTO participants, one row per address, in one transaction.
RECURSIVE InsertParticipants(_, _, _)
InsertParticipants(table, tripID, emails) ==
    IF emails = <<>> THEN table
    ELSE InsertParticipants(
            [table EXCEPT ![NewId(table)] = Participant(NewId(table), tripID, Head(emails), FALSE)],
            tripID, Tail(emails))

\* The rows of the other tables reference an existing trip (foreign key).
TripExists(id) == id \in Ids /\ trips[id].found

\* ---------------------------------------------------------------- requests

NoParam == [wellFormed |-> FALSE, uuid |-> NilUUID]
NoResp == [status |-> 0, message |-> "", id |-> NoParam, items |-> <<>>]
Idle == [op |-> "", pc |-> "idle", id |-> NoParam, body |-> NoBody, local |-> NoRow,
         list |-> <<>>, resp |-> NoResp, calls |-> <<>>, storeErr |-> FALSE]

\* spec.<Handler>JSON<status>Response(...) returned by the handler.
Respond(rec, status, message) ==
    [rec EXCEPT !.pc = "done", !.resp = [NoResp EXCEPT !.status = status, !.message = message]]
RespondId(rec, status, id) ==
    [rec EXCEPT !.pc = "done",
                !.resp = [NoResp EXCEPT !.status = status, !.id = UUIDString(id)]]
RespondItems(rec, status, items) ==
    [rec EXCEPT !.pc = "done", !.resp = [NoResp EXCEPT !.status = status, !.items = items]]
\* `return nil`.
RespondNil(rec) == [rec EXCEPT !.pc = "done"]

Called(rec, method) == [rec EXCEPT !.calls = Append(@, method)]
Failed(rec, method) == [rec EXCEPT !.calls = Append(@, method), !.storeErr = TRUE]

\* Requests take the slots in order.  A sequential client sends a request
\* only after the response to the one before.
NoRequestInFlight == \A r \in Req : req[r].pc \in {"idle", "done"}
CanStart(r) ==
    /\ req[r].pc = "idle"
    /\ IF r = 1 THEN TRUE ELSE req[r - 1].pc # "idle"
    /\ sequential => NoRequestInFlight
New(op, id, body) == [Idle EXCEPT !.op = op, !.id = id, !.body = body]

\* ---------------------------------- PATCH /participants/{participantId}/confirm

\* The check left out: every call goes on to the write.
AlreadyConfirmedNever(participant) == FALSE

\* if participant.IsConfirmed
AlreadyConfirmed(participant) == participant.isConfirmed

StartPatchParticipantsParticipantIDConfirm(r) ==
    /\ CanStart(r)
    /\ \E participantID \in PathParams, fail \in BOOLEAN :
        LET p == UUIDParse(participantID)
            rec == New("PatchParticipantsParticipantIDConfirm", participantID, NoBody)
            participant == GetParticipant(p.id)
        IN req' = [req EXCEPT ![r] =
                IF p.err THEN Respond(rec, 400, "uuid invalido")
                ELSE IF fail
                THEN Respond(Failed(rec, "GetParticipant"), 400, "something went wrong, try again")
                ELSE IF ~participant.found
                THEN Respond(Called(rec, "GetParticipant"), 400, "participant nao encontrado")
                ELSE IF AlreadyConfirmed(participant)
                THEN Respond([Called(rec, "GetParticipant") EXCEPT !.local = participant],
                             400, "participant ja confirmado")
                ELSE [Called(rec, "GetParticipant") EXCEPT
                        !.local = participant, !.pc = "ConfirmParticipant"]]
    /\ UNCHANGED <<trips, participants, activities, links, mail, logged, sequential>>

PatchParticipantsParticipantIDConfirmWrite(r) ==
    /\ req[r].pc = "ConfirmParticipant"
    /\ \E fail \in BOOLEAN :
        IF fail
        THEN /\ req' = [req EXCEPT ![r] =
                    Respond(Failed(@, "ConfirmParticipant"), 400, "something went wrong, try again")]
             /\ UNCHANGED participants
        ELSE /\ participants' = ConfirmParticipant(UUIDParse(req[r].id).id)
             /\ req' = [req EXCEPT ![r] = Respond(Called(@, "ConfirmParticipant"), 204, "")]
    /\ UNCHANGED <<trips, activities, links, mail, logged, sequential>>

\* ------------------------------------------------------------- POST /trips

\* What the bounds leave room for: the rows CreateTrip inserts.
RoomForTrip(body) ==
    /\ FreeIds(trips) # {}
    /\ Cardinality(FreeIds(participants)) >= Len(body.emails_to_invite)

StartPostTrips(r) ==
    /\ CanStart(r)
    /\ \E body \in TripBodies, fail \in BOOLEAN :
        LET rec == New("PostTrips", NoParam, body)
            tripID == NewId(trips)
        IN IF body.decodeErr \/ ~ValidTrip(body) \/ fail
           THEN /\ req' = [req EXCEPT ![r] =
                        IF body.decodeErr THEN Respond(rec, 400, "Invalid JSON")
                        ELSE IF ~ValidTrip(body) THEN Respond(rec, 400, "invalid input")
                        ELSE Respond(Failed(rec, "CreateTrip"), 400, "failed to create trip, try again")]
                /\ UNCHANGED <<trips, participants, mail, sequential>>
           ELSE /\ RoomForTrip(body)
                /\ trips' = [trips EXCEPT ![tripID] =
                        Trip(tripID, body.destination, body.starts_at, body.ends_at, FALSE)]
                /\ participants' = InsertParticipants(participants, tripID, body.emails_to_invite)
                /\ mail' = [mail EXCEPT ![r] = "spawned"]
                /\ req' = [req EXCEPT ![r] =
                        [Called(rec, "CreateTrip") EXCEPT !.local = trips'[tripID], !.pc = "PostTripsReturn"]]
    /\ UNCHANGED <<activities, links, logged, sequential>>

\* The handler waiting for the e-mail and reporting its failure.
PostTripsReturnAwaits(r) ==
    /\ req[r].pc = "PostTripsReturn"
    /\ mail[r] \in {"sent", "failed"}
    /\ req' = [req EXCEPT ![r] =
            IF mail[r] = "failed" THEN Respond(@, 400, "failed to send email")
            ELSE RespondId(@, 201, req[r].local.id)]
    /\ UNCHANGED <<trips, participants, activities, links, mail, logged, sequential>>

\* return spec.PostTripsJSON201Response(...): the goroutine is not awaited.
PostTripsReturn(r) ==
    /\ req[r].pc = "PostTripsReturn"
    /\ req' = [req EXCEPT ![r] = RespondId(@, 201, req[r].local.id)]
    /\ UNCHANGED <<trips, participants, activities, links, mail, logged, sequential>>

\* The goroutine: mailer.SendConfirmTripEmailToTripOwner(tripID), its error
\* logged.  First the trip is read ...
SendConfirmTripEmailGetTrip(r) ==
    /\ mail[r] = "spawned"
    /\ \E fail \in BOOLEAN :
        IF fail \/ ~GetTrip(req[r].local.id).found
        THEN mail' = [mail EXCEPT ![r] = "failed"] /\ logged' = logged \cup {r}
        ELSE mail' = [mail EXCEPT ![r] = "composed"] /\ UNCHANGED logged
    /\ UNCHANGED <<trips, participants, activities, links, req, sequential>>

\* ... then the message is composed and sent (msg.From, msg.To, NewClient,
\* DialAndSend: any of them may fail; DialAndSend may never return).
SendConfirmTripEmailDialAndSend(r) ==
    /\ mail[r] = "composed"
    /\ \E fail \in BOOLEAN :
        IF fail
        THEN mail' = [mail EXCEPT ![r] = "failed"] /\ logged' = logged \cup {r}
        ELSE mail' = [mail EXCEPT ![r] = "sent"] /\ UNCHANGED logged
    /\ UNCHANGED <<trips, participants, activities, links, req, sequential>>

\* ------------------------------------------------------- GET /trips/{tripId}

StartGetTripsTripID(r) ==
    /\ CanStart(r)
    /\ \E tripID \in PathParams, fail \in BOOLEAN :
        LET p == UUIDParse(tripID)
            rec == New("GetTripsTripID", tripID, NoBody)
            trip == GetTrip(p.id)
        IN req' = [req EXCEPT ![r] =
                IF p.err THEN Respond(rec, 400, "uuid invalido")
                ELSE IF fail
                THEN Respond(Failed(rec, "GetTrip"), 400, "This trip dont exists, try again")
                ELSE IF ~trip.found
                THEN Respond(Called(rec, "GetTrip"), 400, "This trip dont exists, try again")
                ELSE RespondItems([Called(rec, "GetTrip") EXCEPT !.local = trip], 200, <<trip>>)]
    /\ UNCHANGED <<trips, participants, activities, links, mail, logged, sequential>>

\* ------------------------------------------------------- PUT /trips/{tripId}

\* The flag reset to its zero value instead of copied from the trip read.
PutTripsTripIDParamsReset(body, trip) ==
    [Destination |-> body.destination, EndsAt |-> body.ends_at, StartsAt |-> body.starts_at,
     IsConfirmed |-> FALSE, ID |-> trip.id]

\* pgstore.UpdateTripParams{...} built from the body and the trip read.
PutTripsTripIDParams(body, trip) ==
    [Destination |-> body.destination, EndsAt |-> body.ends_at, StartsAt |-> body.starts_at,
     IsConfirmed |-> trip.isConfirmed, ID |-> trip.id]

StartPutTripsTripID(r) ==
    /\ CanStart(r)
    /\ \E tripID \in PathParams, body \in UpdateBodies, fail \in BOOLEAN :
        LET p == UUIDParse(tripID)
            rec == New("PutTripsTripID", tripID, body)
            trip == GetTrip(p.id)
        IN req' = [req EXCEPT ![r] =
                IF p.err THEN Respond(New("PutTripsTripID", tripID, NoBody), 400, "uuid invalido")
                ELSE IF body.decodeErr THEN Respond(rec, 400, "Invalid JSON")
                ELSE IF ~ValidTrip(body) THEN Respond(rec, 400, "invalid input")
                ELSE IF fail
                THEN Respond(Failed(rec, "GetTrip"), 400, "Trip not found to update")
                ELSE IF ~trip.found
                THEN Respond(Called(rec, "GetTrip"), 400, "Trip not found to update")
                ELSE [Called(rec, "GetTrip") EXCEPT !.local = trip, !.pc = "UpdateTrip"]]
    /\ UNCHANGED <<trips, participants, activities, links, mail, logged, sequential>>

PutTripsTripIDWrite(r) ==
    /\ req[r].pc = "UpdateTrip"
    /\ req[r].op = "PutTripsTripID"
    /\ \E fail \in BOOLEAN :
        IF fail
        THEN /\ req' = [req EXCEPT ![r] = Respond(Failed(@, "UpdateTrip"), 400, "Trip update failed")]
             /\ UNCHANGED trips
        ELSE /\ trips' = UpdateTrip(PutTripsTripIDParams(req[r].body, req[r].local))
             /\ req' = [req EXCEPT ![r] = RespondNil(Called(@, "UpdateTrip"))]
    /\ UNCHANGED <<participants, activities, links, mail, logged, sequential>>

\* ------------------------------------------------ GET /trips/{tripId}/confirm

\* The flag toggled instead of set.
GetTripsTripIDConfirmParamsToggle(trip) ==
    [Destination |-> trip.destination, EndsAt |-> trip.endsAt, StartsAt |-> trip.startsAt,
     IsConfirmed |-> ~trip.isConfirmed, ID |-> trip.id]

\* pgstore.UpdateTripParams{...} built from the trip read.
GetTripsTripIDConfirmParams(trip) ==
    [Destination |-> trip.destination, EndsAt |-> trip.endsAt, StartsAt |-> trip.startsAt,
     IsConfirmed |-> TRUE, ID |-> trip.id]

StartGetTripsTripIDConfirm(r) ==
    /\ CanStart(r)
    /\ \E tripID \in PathParams, fail \in BOOLEAN :
        LET p == UUIDParse(tripID)
            rec == New("GetTripsTripIDConfirm", tripID, NoBody)
            trip == GetTrip(p.id)
        IN req' = [req EXCEPT ![r] =
                IF p.err THEN Respond(rec, 400, "uuid invalido")
                ELSE IF fail
                THEN Respond(Failed(rec, "GetTrip"), 400, "Trip to update not found")
                ELSE IF ~trip.found
                THEN Respond(Called(rec, "GetTrip"), 400, "Trip to update not found")
                ELSE [Called(rec, "GetTrip") EXCEPT !.local = trip, !.pc = "UpdateTrip"]]
    /\ UNCHANGED <<trips, participants, activities, links, mail, logged, sequential>>

GetTripsTripIDConfirmWrite(r) ==
    /\ req[r].pc = "UpdateTrip"
    /\ req[r].op = "GetTripsTripIDConfirm"
    /\ \E fail \in BOOLEAN :
        IF fail
        THEN /\ req' = [req EXCEPT ![r] =
                    Respond(Failed(@, "UpdateTrip"), 400, "Error when confirm a trip")]
             /\ UNCHANGED trips
        ELSE /\ trips' = UpdateTrip(GetTripsTripIDConfirmParams(req[r].local))
             /\ req' = [req EXCEPT ![r] = Respond(Called(@, "UpdateTrip"), 204, "")]
    /\ UNCHANGED <<participants, activities, links, mail, logged, sequential>>

\* --------------------------------------------- GET /trips/{tripId}/activities

\* date := activity.OccursAt.Time, the key of the map.
GroupKey(activity) == activity.occursAt

GroupKeys(list) == {GroupKey(list[i]) : i \in 1..Len(list)}

\* spec.GetTripActivitiesResponseInnerArray{ID, OccursAt, Title}
Inner(activity) ==
    [id |-> UUIDString(activity.id), occursAt |-> activity.occursAt, title |-> activity.title]

\* groupedActivities[date] after the first loop: the activities with that
\* key, appended in the order of the list.
RECURSIVE GroupOf(_, _)
GroupOf(list, key) ==
    IF list = <<>> THEN <<>>
    ELSE IF GroupKey(Head(list)) = key
         THEN <<Inner(Head(list))>> \o GroupOf(Tail(list), key)
         ELSE GroupOf(Tail(list), key)

\* The orders in which `range` may visit the keys of a map: all of them.
MapOrders(keys) ==
    {o \in [1..Cardinality(keys) -> keys] : \A i, j \in DOMAIN o : i # j => o[i] # o[j]}

\* groupedKeys after the second loop, for every order of the map's keys.
GroupedKeys(list) ==
    {[i \in DOMAIN o |-> [date |-> o[i], activities |-> GroupOf(list, o[i])]] :
        o \in MapOrders(GroupKeys(list))}

StartGetTripsTripIDActivities(r) ==
    /\ CanStart(r)
    /\ \E tripID \in PathParams, fail \in BOOLEAN :
        LET p == UUIDParse(tripID)
            rec == New("GetTripsTripIDActivities", tripID, NoBody)
            list == GetTripActivities(p.id)
        IN \E groupedKeys \in GroupedKeys(list) :
            req' = [req EXCEPT ![r] =
                IF p.err THEN Respond(rec, 400, "uuid invalido")
                ELSE IF fail
                THEN Respond(Failed(rec, "GetTripActivities"), 400, "Activities for this trip not found")
                ELSE RespondItems([Called(rec, "GetTripActivities") EXCEPT !.list = list],
                                  200, groupedKeys)]
    /\ UNCHANGED <<trips, participants, activities, links, mail, logged, sequential>>

\* -------------------------------------------- POST /trips/{tripId}/activities

\* The error of the lookup ignored.
TripLookupIgnored(fail, trip) == FALSE

\* _, err = api.store.GetTrip(...); if err != nil
TripLookupFailed(fail, trip) == fail \/ ~trip.found

StartPostTripsTripIDActivities(r) ==
    /\ CanStart(r)
    /\ \E tripID \in PathParams, body \in ActivityBodies, fail \in BOOLEAN :
        LET p == UUIDParse(tripID)
            rec == New("PostTripsTripIDActivities", tripID, body)
            trip == GetTrip(p.id)
            read == [Called(rec, "GetTrip") EXCEPT !.local = trip, !.storeErr = fail]
        IN req' = [req EXCEPT ![r] =
                IF body.decodeErr THEN Respond(rec, 400, "Invalid JSON")
                ELSE IF p.err THEN Respond(rec, 400, "Invalid Id")
                ELSE IF TripLookupFailed(fail, trip)
                THEN Respond(read, 400, "Somethind went wrong with this trip")
                ELSE IF ~ValidActivity(body) THEN Respond(read, 400, "invalid input")
                ELSE [read EXCEPT !.pc = "CreateActivity"]]
    /\ UNCHANGED <<trips, participants, activities, links, mail, logged, sequential>>

PostTripsTripIDActivitiesWrite(r) ==
    /\ req[r].pc = "CreateActivity"
    /\ \E fail \in BOOLEAN :
        LET id == UUIDParse(req[r].id).id
            activityId == Len(activities) + 1
        IN IF fail \/ ~TripExists(id)
           THEN /\ req' = [req EXCEPT ![r] =
                        Respond(Failed(@, "CreateActivity"), 400, "Something went wrong")]
                /\ UNCHANGED activities
           ELSE /\ activities' = Append(activities,
                        [id |-> activityId, tripID |-> id, title |-> req[r].body.title,
                         occursAt |-> req[r].body.occurs_at])
                /\ req' = [req EXCEPT ![r] = RespondId(Called(@, "CreateActivity"), 201, activityId)]
    /\ UNCHANGED <<trips, participants, links, mail, logged, sequential>>

\* ------------------------------------------------ POST /trips/{tripId}/invites

StartPostTripsTripIDInvites(r) ==
    /\ CanStart(r)
    /\ \E tripID \in PathParams, body \in InviteBodies, fail \in BOOLEAN :
        LET p == UUIDParse(tripID)
            rec == New("PostTripsTripIDInvites", tripID, body)
            participantId == NewId(participants)
        IN IF body.decodeErr \/ p.err \/ fail \/ ~TripExists(p.id)
           THEN /\ req' = [req EXCEPT ![r] =
                        IF body.decodeErr THEN Respond(rec, 400, "Invalid JSON")
                        ELSE IF p.err THEN Respond(rec, 400, "Invalid Id")
                        ELSE Respond(Failed(rec, "InviteParticipantToATrip"), 400,
                                     "Failed to invite participant to a trip")]
                /\ UNCHANGED participants
           ELSE /\ FreeIds(participants) # {}
                /\ participants' = [participants EXCEPT ![participantId] =
                        Participant(participantId, p.id, body.email, FALSE)]
                /\ req' = [req EXCEPT ![r] =
                        Respond(Called(rec, "InviteParticipantToATrip"), 201, "")]
    /\ UNCHANGED <<trips, activities, links, mail, logged, sequential>>

\* -------------------------------------------------- GET /trips/{tripId}/links

\* spec.GetLinksResponseArray{ID, Title, URL}, in the order of the rows.
LinksResponse(rows) ==
    [i \in DOMAIN rows |-> [id |-> UUIDString(rows[i].id), title |-> rows[i].title, url |-> rows[i].url]]

StartGetTripsTripIDLinks(r) ==
    /\ CanStart(r)
    /\ \E tripID \in PathParams, fail \in BOOLEAN :
        LET p == UUIDParse(tripID)
            rec == New("GetTripsTripIDLinks", tripID, NoBody)
            rows == GetTripLinks(p.id)
        IN req' = [req EXCEPT ![r] =
                IF p.err THEN Respond(rec, 400, "Invalid Trip UUID")
                ELSE IF fail
                THEN Respond(Failed(rec, "GetTripLinks"), 400, "Failed to get Trip links")
                ELSE RespondItems([Called(rec, "GetTripLinks") EXCEPT !.list = rows],
                                  200, LinksResponse(rows))]
    /\ UNCHANGED <<trips, participants, activities, links, mail, logged, sequential>>

\* ------------------------------------------------- POST /trips/{tripId}/links

\* The two 400 responses for a decode error and for a malformed identifier
\* are built and dropped: the handler goes on, with the body as decoded so
\* far and with id = uuid.Nil.
StartPostTripsTripIDLinks(r) ==
    /\ CanStart(r)
    /\ \E tripID \in PathParams, body \in LinkBodies, fail \in BOOLEAN :
        LET id == UUIDParse(tripID).id
            rec == New("PostTripsTripIDLinks", tripID, body)
            linkId == Len(links) + 1
        IN IF ~ValidLink(body) \/ fail \/ ~TripExists(id)
           THEN /\ req' = [req EXCEPT ![r] =
                        IF ~ValidLink(body) THEN Respond(rec, 400, "invalid input")
                        ELSE Respond(Failed(rec, "CreateTripLink"), 400, "Failed to create link")]
                /\ UNCHANGED links
           ELSE /\ links' = Append(links,
                        [id |-> linkId, tripID |-> id, title |-> body.title, url |-> body.url])
                /\ req' = [req EXCEPT ![r] = RespondId(Called(rec, "CreateTripLink"), 201, linkId)]
    /\ UNCHANGED <<trips, participants, activities, mail, logged, sequential>>

\* ------------------------------------------- GET /trips/{tripId}/participants

\* spec.GetTripParticipantsResponseArray{Email, ID, IsConfirmed, Name: nil}
ParticipantsResponse(rows) ==
    [i \in DOMAIN rows |->
        [email |-> rows[i].email, id |-> UUIDString(rows[i].id),
         isConfirmed |-> rows[i].isConfirmed, name |-> "nil"]]

StartGetTripsTripIDParticipants(r) ==
    /\ CanStart(r)
    /\ \E tripID \in PathParams, fail \in BOOLEAN :
        LET p == UUIDParse(tripID)
            rec == New("GetTripsTripIDParticipants", tripID, NoBody)
            rows == GetParticipants(p.id)
        IN req' = [req EXCEPT ![r] =
                IF p.err THEN Respond(rec, 400, "Trip id invalid")
                ELSE IF fail
                THEN Respond(Failed(rec, "GetParticipants"), 400, "Error to get the trip participants")
                ELSE RespondItems([Called(rec, "GetParticipants") EXCEPT !.list = rows],
                                  200, ParticipantsResponse(rows))]
    /\ UNCHANGED <<trips, participants, activities, links, mail, logged, sequential>>

\* ----------------------------------------------------------- specifications

\* NewApi(pool, logger, mailer): the API starts on a database that earlier
\* runs have filled: one unconfirmed trip with one invited, unconfirmed
\* participant.  Every other identifier names no row yet.
InitTrips == [i \in Ids |-> IF i = 1 THEN Trip(1, "Rio", 1, 2, FALSE) ELSE NoRow]
InitParticipants ==
    [i \in Ids |-> IF i = 1 THEN Participant(1, 1, "bob@journey.com", FALSE) ELSE NoRow]

InitRequests ==
    /\ req = [r \in Req |-> Idle]
    /\ mail = [r \in Req |-> "none"]
    /\ logged = {}

InitStore ==
    /\ trips = InitTrips
    /\ participants = InitParticipants
    /\ activities = <<>>
    /\ links = <<>>

\* Clients that send requests at any time.
Init == InitStore /\ InitRequests /\ sequential = FALSE

Start(r) ==
    \/ StartPatchParticipantsParticipantIDConfirm(r)
    \/ StartPostTrips(r)
    \/ StartGetTripsTripID(r)
    \/ StartPutTripsTripID(r)
    \/ StartGetTripsTripIDActivities(r)
    \/ StartPostTripsTripIDActivities(r)
    \/ StartGetTripsTripIDConfirm(r)
    \/ StartPostTripsTripIDInvites(r)
    \/ StartGetTripsTripIDLinks(r)
    \/ StartPostTripsTripIDLinks(r)
    \/ StartGetTripsTripIDParticipants(r)

Step(r) ==
    \/ PatchParticipantsParticipantIDConfirmWrite(r)
    \/ PostTripsReturn(r)
    \/ SendConfirmTripEmailGetTrip(r)
    \/ SendConfirmTripEmailDialAndSend(r)
    \/ PutTripsTripIDWrite(r)
    \/ PostTripsTripIDActivitiesWrite(r)
    \/ GetTripsTripIDConfirmWrite(r)

\* The server runs every request on its own goroutine.
Next == \E r \in Req : Start(r) \/ Step(r)

Spec == Init /\ [][Next]_vars

\* One client that sends each request after the response to the one before.
InitSeq == InitStore /\ InitRequests /\ sequential = TRUE

SpecSeq == InitSeq /\ [][Next]_vars

\* The grouping of GET /trips/{tripId}/activities on every list of rows.
ActivityLists ==
    UNION {[1..n -> [tripID : {1}, title : {"tour"}, occursAt : Timestamps]] : n \in 0..MaxActs}

InitGroup ==
    /\ trips = InitTrips
    /\ participants = InitParticipants
    /\ \E rows \in ActivityLists :
        activities = [i \in DOMAIN rows |->
            [id |-> i, tripID |-> rows[i].tripID, title |-> rows[i].title,
             occursAt |-> rows[i].occursAt]]
    /\ links = <<>>
    /\ InitRequests
    /\ sequential = FALSE

NextGroup == \E r \in Req : StartGetTripsTripIDActivities(r)

SpecGroup == InitGroup /\ [][NextGroup]_vars

\* ------------------------------------------------------------------ claims

Done(r) == req[r].pc = "done"
Calls(r) == {req[r].calls[i] : i \in DOMAIN req[r].calls}
ParsedId(r) == UUIDParse(req[r].id)

\* The endpoints with an identifier in the path.
IdEndpoints ==
    {"PatchParticipantsParticipantIDConfirm", "GetTripsTripID", "PutTripsTripID",
     "GetTripsTripIDActivities", "PostTripsTripIDActivities", "GetTripsTripIDConfirm",
     "PostTripsTripIDInvites", "GetTripsTripIDLinks", "PostTripsTripIDLinks",
     "GetTripsTripIDParticipants"}

\* C1: a request to an endpoint with a path identifier that does not parse
\* as a UUID makes no store call, and its response is a 400.
C1_MalformedIdNoStoreCall ==
    \A r \in Req :
        (req[r].op \in IdEndpoints /\ ParsedId(r).err) =>
            /\ req[r].calls = <<>>
            /\ Done(r) => req[r].resp.status = 400

\* C2: a stored trip whose is-confirmed flag is true is never stored with
\* the flag false by any later step.
C2_TripConfirmedMonotonic ==
    [][\A t \in Ids :
        (trips[t].found /\ trips[t].isConfirmed) => (trips'[t].found /\ trips'[t].isConfirmed)]_vars

\* Request r is a confirm-participant call for participant p.
ConfirmsParticipant(r, p) ==
    req[r].op = "PatchParticipantsParticipantIDConfirm" /\ req[r].id = UUIDString(p)
AlreadyConfirmedResponse(r) ==
    req[r].resp.status = 400 /\ req[r].resp.message = "participant ja confirmado"

\* What the claim says of two calls in a row, r and r + 1, for participant p
\* whose row `before` the first call is unconfirmed.
TwoConfirmParticipantCalls(r, p, before) ==
    /\ Done(r) =>
        /\ req[r].resp.status = 204
        /\ participants[p] = [before EXCEPT !.isConfirmed = TRUE]
    /\ Done(r + 1) =>
        /\ AlreadyConfirmedResponse(r + 1)
        /\ "ConfirmParticipant" \notin Calls(r + 1)
        /\ participants[p] = [before EXCEPT !.isConfirmed = TRUE]

OneGroupPerDate(list, groups) ==
    /\ Len(groups) = Cardinality({list[i].occursAt.date : i \in DOMAIN list})
    /\ \A i, j \in DOMAIN list :
        list[i].occursAt.date = list[j].occursAt.date =>
            \E g \in DOMAIN groups :
                \E m, n \in DOMAIN groups[g].activities :
                    /\ groups[g].activities[m] = Inner(list[i])
                    /\ groups[g].activities[n] = Inner(list[j])

C4_GroupedByCalendarDate ==
    \A r \in Req :
        (req[r].op = "GetTripsTripIDActivities" /\ req[r].resp.status = 200) =>
            OneGroupPerDate(req[r].list, req[r].resp.items)

\* C8: in that response group A comes before group B exactly when A's first
\* activity comes before B's first activity in the rows read, and inside a
\* group the activities keep the order of the rows.
PositionIn(list, inner) == CHOOSE i \in DOMAIN list : Inner(list[i]) = inner
InRetrievalOrder(list, groups) ==
    /\ \A a, b \in DOMAIN groups :
        a < b <=> PositionIn(list, groups[a].activities[1]) < PositionIn(list, groups[b].activities[1])
    /\ \A g \in DOMAIN groups : \A m, n \in DOMAIN groups[g].activities :
        m < n => PositionIn(list, groups[g].activities[m]) < PositionIn(list, groups[g].activities[n])

C8_GroupsInRetrievalOrder ==
    \A r \in Req :
        (req[r].op = "GetTripsTripIDActivities" /\ req[r].resp.status = 200) =>
            InRetrievalOrder(req[r].list, req[r].resp.items)

\* C5: once CreateTrip has succeeded the handler can return at once, whatever
\* the state of the e-mail goroutine, its response is 201 with the identifier
\* of the trip created, and a failed e-mail is in the log and nowhere else.
TripCreated(r) == req[r].op = "PostTrips" /\ "CreateTrip" \in Calls(r) /\ ~req[r].storeErr

C5_CreateTripResponse ==
    \A r \in Req :
        TripCreated(r) =>
            /\ req[r].pc = "PostTripsReturn" => ENABLED PostTripsReturn(r)
            /\ Done(r) =>
                /\ req[r].resp.status = 201
                /\ UUIDParse(req[r].resp.id) = [err |-> FALSE, id |-> req[r].local.id]
                /\ trips[req[r].local.id].found
            /\ mail[r] = "failed" <=> r \in logged

\* C5 witness: a request answered 201 whose e-mail failed.
C5_Witness ==
    \E r \in Req :
        /\ TripCreated(r) /\ Done(r) /\ req[r].resp.status = 201
        /\ mail[r] = "failed"

\* C6: a create-activity request with a well-formed identifier that names no
\* stored trip (trips are never deleted: none now, none when it ran), or
\* whose trip lookup found no row, makes no CreateActivity call and ends with
\* a 400, whatever its body; and the activities stored are exactly those of
\* the requests answered 201, each for a stored trip.
CreatesActivity(r) == req[r].op = "PostTripsTripIDActivities" /\ ~ParsedId(r).err
TripNotFound(r) ==
    /\ CreatesActivity(r)
    /\ "GetTrip" \in Calls(r) /\ ~req[r].storeErr /\ ~req[r].local.found

C6_NoActivityForMissingTrip ==
    /\ \A r \in Req :
        (CreatesActivity(r) /\ (TripNotFound(r) \/ ~TripExists(ParsedId(r).id))) =>
            /\ Done(r) /\ req[r].resp.status = 400
            /\ "CreateActivity" \notin Calls(r)
    /\ Len(activities) =
        Cardinality({r \in Req : req[r].op = "PostTripsTripIDActivities" /\ req[r].resp.status = 201})
    /\ \A i \in DOMAIN activities : TripExists(activities[i].tripID)

\* C6 witness: a request with a valid body whose trip lookup found no row.
C6_Witness ==
    \E r \in Req : TripNotFound(r) /\ Done(r) /\ ValidActivity(req[r].body)

\* Request r is a confirm-trip call for trip t.
ConfirmsTrip(r, t) == req[r].op = "GetTripsTripIDConfirm" /\ req[r].id = UUIDString(t)
\* No request after r has started.
Latest(r) == IF r = MaxReq THEN TRUE ELSE req[r + 1].pc = "idle"

\* What the claim says of a confirm-trip call r for trip t whose row was
\* `before`: 204, and the row with the flag true and the rest as before.
TripConfirmedBy(r, t, before) ==
    /\ req[r].resp.status = 204
    /\ Latest(r) => trips[t] = [before EXCEPT !.isConfirmed = TRUE]

TripConfirmCallOk(r, t) == ConfirmsTrip(r, t) /\ Done(r) /\ req[r].local.found /\ ~req[r].storeErr

UpdatesTrip(r, t) == req[r].op = "PutTripsTripID" /\ req[r].id = UUIDString(t)
UpdateAndConfirmDone(r1, r2, t) ==
    /\ UpdatesTrip(r1, t) /\ Done(r1) /\ req[r1].resp.status = 0
    /\ ConfirmsTrip(r2, t) /\ Done(r2) /\ req[r2].resp.status = 204
    /\ \A r \in Req \ {r1, r2} :
        ~("UpdateTrip" \in Calls(r) /\ req[r].id = UUIDString(t))

\* Both requests read the same unconfirmed row, which the update's body
\* differs from: each read came before the other's write.
ReadsOverlap(r1, r2) ==
    /\ req[r1].local = req[r2].local
    /\ ~req[r1].local.isConfirmed
    /\ req[r1].body.destination # req[r1].local.destination

\* The row after the two requests run one after the other, in either order.
UpdateThenConfirm(row, body) ==
    LET updated == UpdateTripRow(row, PutTripsTripIDParams(body, row))
    IN UpdateTripRow(updated, GetTripsTripIDConfirmParams(updated))
ConfirmThenUpdate(row, body) ==
    LET confirmed == UpdateTripRow(row, GetTripsTripIDConfirmParams(row))
    IN UpdateTripRow(confirmed, PutTripsTripIDParams(body, confirmed))

\* C9: when an update and a confirmation of one trip both read the row before
\* either wrote it, and both succeed, the row stored in the end is the result
\* of neither serial order of the two: one of the two writes is lost.
C9_LostWrite ==
    \A r1, r2 \in Req, t \in Ids :
        (UpdateAndConfirmDone(r1, r2, t) /\ ReadsOverlap(r1, r2)) =>
            /\ trips[t] # UpdateThenConfirm(req[r1].local, req[r1].body)
            /\ trips[t] # ConfirmThenUpdate(req[r1].local, req[r1].body)

\* C9 witness: the confirmation lost: both answered with success, the trip
\* unconfirmed.
C9_Witness ==
    \E r1, r2 \in Req, t \in Ids :
        /\ UpdateAndConfirmDone(r1, r2, t) /\ ReadsOverlap(r1, r2)
        /\ ~trips[t].isConfirmed

\* C10: of the confirm-participant requests for one participant that found
\* the row and had no store failure, at most one is answered 204 and every
\* other one is answered "already confirmed".
FoundParticipant(r, p) ==
    /\ ConfirmsParticipant(r, p) /\ Done(r)
    /\ req[r].local.found /\ ~req[r].storeErr

C10_AtMostOneConfirmation ==
    \A p \in Ids :
        /\ Cardinality({r \in Req : FoundParticipant(r, p) /\ req[r].resp.status = 204}) <= 1
        /\ \A r \in Req :
            (FoundParticipant(r, p) /\ req[r].resp.status # 204) => AlreadyConfirmedResponse(r)

====
